---- MODULE Spec2Model ----
(***************************************************************************)
(* Model of the badi_counts forecasting pipeline.                          *)
(*                                                                         *)
(*   src/dbos_fct/badi/functions.py   prepare_data, process_and_predict,   *)
(*                                    prepare_future_dates,                *)
(*                                    format_predictions                   *)
(*                                    forecast_prophet (/predict),         *)
(*                                    fit_full_model_endpoint              *)
(*   src/functions/main.py            make_predictions, store_predictions  *)
(*                                                                         *)
(* Time is counted in minutes of wall clock since 00:00 of day 0 (a        *)
(* Friday).  A timezone-aware instant is a record [wall, off]: the wall     *)
(* clock reading in its own zone and that zone's UTC offset in minutes.    *)
(* No daylight-saving change falls inside the modelled days.               *)
(* Observation values are whole percents; forecast values are counted in   *)
(* thousandths of a percent, so that rounding to 2 and to 1 decimals is    *)
(* an operation that changes values.                                       *)
(* The regression model (Prophet) is an external collaborator: its fit on  *)
(* an already fitted object may raise, and its predict returns one row per *)
(* future slot whose values are drawn from a family of output profiles.    *)
(***************************************************************************)
EXTENDS Integers, Sequences, FiniteSets, TLC

VARIABLES
    pc,                     \* position of the running call
    data,                   \* PredictionInput of the running call
    supplied_model,         \* the caller's model object (mutated by an in-place fit)
    model,                  \* the local variable model of process_and_predict
    df,                     \* training frame returned by prepare_data
    closed_df,              \* prepare_data's local df of synthetic rows (line 364)
    latest_timestamp,       \* max(data.timestamps), timezone-aware
    future,                 \* frame returned by prepare_future_dates
    raw_forecast,           \* what the collaborator's predict returned
    forecast,               \* the forecast frame after clipping
    formatted_predictions,  \* value returned by format_predictions
    error,                  \* exception that left the call, or "none"
    fit_log,                \* the calls made to the collaborator's fit, in order
    df_features,            \* the feature columns of df, row by row
    future_features,        \* the feature columns of future, row by row
    stored,                 \* documents set by the running store_predictions, by day
    endpoint,               \* the endpoint serving the running request, or "none"
    model_store             \* rows of the table prophet_models, oldest first

vars == <<pc, data, supplied_model, model, df, closed_df, latest_timestamp, future,
          raw_forecast, forecast, formatted_predictions, error, fit_log,
          df_features, future_features, stored, endpoint, model_store>>

----------------------------------------------------------------------------
(* Bounds of the model *)

MaxObs == 2

MaxDays == 2

MaxPoints == 3

MaxStored == 2

----------------------------------------------------------------------------
(* Calendar arithmetic on minutes (pandas Timestamp accessors) *)

MinutesPerDay == 24 * 60

Date(t) == t \div MinutesPerDay

Normalize(t) == Date(t) * MinutesPerDay

Hour(t) == (t % MinutesPerDay) \div 60

Minute(t) == t % 60

\* day 0 is a Friday: Monday = 0 ... Sunday = 6
Weekday(t) == (Date(t) + 4) % 7

At(date, hour, minute) == date * MinutesPerDay + hour * 60 + minute

\* ts.astimezone(ZoneInfo("UTC")).replace(tzinfo=None)
UtcNaive(ts) == ts.wall - ts.off

\* pd.Timestamp.tz_localize(None): the wall clock reading, zone dropped
WallNaive(ts) == ts.wall

NoTimestamp == [wall |-> -1, off |-> 0]

----------------------------------------------------------------------------
(* Sequence helpers standing for the pandas / Python primitives used *)

\* max(data.timestamps): aware datetimes compare by instant; the first maximum wins
RECURSIVE MaxTimestamp(_)
MaxTimestamp(s) ==
    IF Len(s) = 1 THEN s[1]
    ELSE LET m == MaxTimestamp(SubSeq(s, 1, Len(s) - 1))
         IN  IF UtcNaive(s[Len(s)]) > UtcNaive(m) THEN s[Len(s)] ELSE m

RECURSIVE SeqMin(_)
SeqMin(s) ==
    IF Len(s) = 1 THEN s[1]
    ELSE LET m == SeqMin(SubSeq(s, 1, Len(s) - 1))
         IN  IF s[Len(s)] < m THEN s[Len(s)] ELSE m

\* pd.date_range(start, end, freq="30min"): every half hour from start, end included
date_range(start, end) ==
    IF end < start THEN <<>>
    ELSE [k \in 1..((end - start) \div 30 + 1) |-> start + 30 * (k - 1)]

\* DataFrame.sort_values("ds"); rows with equal ds keep their order
RECURSIVE sort_values(_)
sort_values(s) ==
    IF s = <<>> THEN <<>>
    ELSE LET rest == sort_values(SubSeq(s, 1, Len(s) - 1))
             r    == s[Len(s)]
             k    == Cardinality({i \in DOMAIN rest : rest[i].ds <= r.ds})
         IN  SubSeq(rest, 1, k) \o <<r>> \o SubSeq(rest, k + 1, Len(rest))

Rows(s) == {s[i] : i \in DOMAIN s}

----------------------------------------------------------------------------
(* Time-of-day windows *)

PeriodNames ==
    <<"early_morning", "late_morning", "lunch", "afternoon", "after_work",
      "peak_hours", "weekend_day", "evening", "closed">>

TIME_PERIODS ==
    [early_morning |-> <<6, 9>>, late_morning |-> <<9, 11>>, lunch |-> <<11, 13>>,
     afternoon |-> <<13, 16>>, after_work |-> <<16, 19>>, peak_hours |-> <<17, 19>>,
     weekend_day |-> <<10, 18>>, evening |-> <<19, 22>>, closed |-> <<22, 6>>]

\* TIME_PERIODS without weekend_day, closed and peak_hours, in dict order
REGULAR_PERIODS ==
    LET regular(k) == k \notin {"weekend_day", "closed", "peak_hours"}
    IN  SelectSeq(PeriodNames, regular)

\* lines 375-383: the indicator column of a window for the slot of a training row
df_period_indicator(name, t) ==
    LET hour  == Hour(t)
        start == TIME_PERIODS[name][1]
        end   == TIME_PERIODS[name][2]
    IN  IF name = "weekend_day"
        THEN (IF hour >= start /\ hour < end /\ Weekday(t) >= 5 THEN 1 ELSE 0)
        ELSE IF name = "closed"
        THEN (IF hour >= start \/ hour < end THEN 1 ELSE 0)
        ELSE (IF hour >= start /\ hour < end THEN 1 ELSE 0)

\* the feature columns added to the training frame (hour_sin and hour_cos, two
\* functions of the hour, are left out)
df_time_periods(frame) ==
    [i \in DOMAIN frame |->
        [ds |-> frame[i].ds,
         weekday |-> Weekday(frame[i].ds),
         periods |-> [name \in Rows(PeriodNames) |-> df_period_indicator(name, frame[i].ds)]]]

\* a closed window tested with AND, as the other windows are
future_period_indicator_and(name, t) ==
    LET hour  == Hour(t)
        start == TIME_PERIODS[name][1]
        end   == TIME_PERIODS[name][2]
    IN  IF name = "weekend_day"
        THEN (IF hour >= start /\ hour < end /\ Weekday(t) >= 5 THEN 1 ELSE 0)
        ELSE (IF hour >= start /\ hour < end THEN 1 ELSE 0)

\* lines 459-467: the indicator column of a window for a slot of the future frame
future_period_indicator(name, t) ==
    LET hour  == Hour(t)
        start == TIME_PERIODS[name][1]
        end   == TIME_PERIODS[name][2]
    IN  IF name = "weekend_day"
        THEN (IF hour >= start /\ hour < end /\ Weekday(t) >= 5 THEN 1 ELSE 0)
        ELSE IF name = "closed"
        THEN (IF hour >= start \/ hour < end THEN 1 ELSE 0)
        ELSE (IF hour >= start /\ hour < end THEN 1 ELSE 0)

\* the feature columns added to the future frame
future_time_periods(fut) ==
    [i \in DOMAIN fut |->
        [ds |-> fut[i],
         weekday |-> Weekday(fut[i]),
         periods |-> [name \in Rows(PeriodNames) |-> future_period_indicator(name, fut[i])]]]

----------------------------------------------------------------------------
(* prepare_data *)

\* indices of the observations kept by the negative-value filter, ascending
valid_indices(d) == {i \in 1..Len(d.values) : d.values[i] >= 0}

RECURSIVE FilterFrame(_, _)
FilterFrame(d, i) ==
    IF i = 0 THEN <<>>
    ELSE IF d.values[i] >= 0
         THEN Append(FilterFrame(d, i - 1),
                     [ds |-> UtcNaive(d.timestamps[i]), y |-> d.values[i]])
         ELSE FilterFrame(d, i - 1)

\* the frame of real observations: ds in naive UTC, y the value
base_df(d) == FilterFrame(d, Len(d.values))

BaseDs(d) == [i \in DOMAIN base_df(d) |-> base_df(d)[i].ds]

start_date(d) == Normalize(SeqMin(BaseDs(d)))

end_date(latest) == Normalize(WallNaive(latest)) + 23 * 60 + 59

\* hour >= 22 or hour < 6
IsClosedHour(t) == Hour(t) >= 22 \/ Hour(t) < 6

\* the zero-valued rows of every closed-hour slot of the covered range
ClosedRows(d, latest) ==
    LET all_times == date_range(start_date(d), end_date(latest))
        closed    == SelectSeq(all_times, IsClosedHour)
    IN  [i \in DOMAIN closed |-> [ds |-> closed[i], y |-> 0]]

\* a cutoff that still counts 21:30 itself as early
BeforeCutoffInclusive(latest) ==
    \/ Hour(WallNaive(latest)) < 21
    \/ (Hour(WallNaive(latest)) = 21 /\ Minute(WallNaive(latest)) <= 30)

\* latest_timestamp.hour < 21 or (hour == 21 and minute < 30)
BeforeCutoff(latest) ==
    \/ Hour(WallNaive(latest)) < 21
    \/ (Hour(WallNaive(latest)) = 21 /\ Minute(WallNaive(latest)) < 30)

\* no truncation at all
KeepAllRows(rows, latest) == rows

\* "Drop future rows if latest timestamp is before 21:30"
DropFutureRows(rows, latest) ==
    IF BeforeCutoff(latest)
    THEN LET keep(r) == r.ds <= WallNaive(latest) IN SelectSeq(rows, keep)
    ELSE rows

\* pd.concat([base_df, df], ignore_index=True).sort_values("ds")
MergeActual(base, closed) == sort_values(base \o closed)

\* a length check that lets a longer list of timestamps through
prepare_data_lenient(d) ==
    IF Len(d.timestamps) < Len(d.values)
    THEN [ok |-> FALSE, error |-> "ValueError"]
    ELSE IF valid_indices(d) = {}
    THEN [ok |-> FALSE, error |-> "ValueError"]
    ELSE LET latest == MaxTimestamp(d.timestamps)
             closed == DropFutureRows(ClosedRows(d, latest), latest)
         IN  [ok |-> TRUE,
              df |-> MergeActual(base_df(d), closed),
              features |-> df_time_periods(MergeActual(base_df(d), closed)),
              closed_df |-> closed,
              latest_timestamp |-> latest]

prepare_data(d) ==
    IF Len(d.timestamps) # Len(d.values)
    THEN [ok |-> FALSE, error |-> "ValueError"]
    ELSE IF valid_indices(d) = {}
    THEN [ok |-> FALSE, error |-> "ValueError"]
    ELSE LET latest == MaxTimestamp(d.timestamps)
             closed == DropFutureRows(ClosedRows(d, latest), latest)
         IN  [ok |-> TRUE,
              df |-> MergeActual(base_df(d), closed),
              features |-> df_time_periods(MergeActual(base_df(d), closed)),
              closed_df |-> closed,
              latest_timestamp |-> latest]

----------------------------------------------------------------------------
(* prepare_future_dates *)

\* a rounding to the nearest half-hour mark, which may fall before the observation
prediction_start_nearest(latest) ==
    LET w == WallNaive(latest)
    IN  ((w + 15) \div 30) * 30

prediction_start(latest) ==
    LET w == WallNaive(latest)
    IN  IF Minute(w) < 30
        THEN (w \div 60) * 60 + 30
        ELSE ((w + 60) \div 60) * 60

\* an end that forgets the horizon: 23:59 of the current day
EndOfCurrentDay(latest, days) == At(Date(WallNaive(latest)), 23, 59)

\* datetime.combine(current_date + days, min.time()).replace(hour=23, minute=59)
future_end_date(latest, days) == At(Date(WallNaive(latest)) + days, 23, 59)

\* no filter at all
KeepEverySlot(t, latest) == TRUE

\* the operating-hours filter, with the clause that keeps the current day
KeepFutureSlot(t, latest) ==
    \/ (Hour(t) >= 6 /\ Hour(t) < 22)
    \/ /\ Date(t) = Date(WallNaive(latest))
       /\ Hour(t) >= Hour(WallNaive(latest))
       /\ Hour(t) < 22

prepare_future_dates(latest, days) ==
    LET grid    == date_range(prediction_start(latest), future_end_date(latest, days))
        keep(t) == KeepFutureSlot(t, latest)
    IN  SelectSeq(grid, keep)

----------------------------------------------------------------------------
(* The regression model's predict, and format_predictions *)

\* families of outputs of the collaborator's predict, in thousandths of a percent
Profiles ==
    { [base |-> -3000, step |-> 1777, width |-> 2500],
      [base |-> 99995, step |-> -1,   width |-> 5],
      [base |-> 50005, step |-> 0,    width |-> 0] }

\* model.predict(future): one row per future slot
Predict(fut, p) ==
    [i \in DOMAIN fut |->
        LET v == p.base + p.step * (i - 1)
        IN  [ds |-> fut[i], yhat |-> v,
             yhat_lower |-> v - p.width, yhat_upper |-> v + p.width]]

\* a clip that forgets the upper limit
ClipLowerOnly(v) == IF v < 0 THEN 0 ELSE v

\* Series.clip(lower=0, upper=100)
Clip(v) == IF v < 0 THEN 0 ELSE IF v > 100000 THEN 100000 ELSE v

ClipForecast(raw) ==
    [i \in DOMAIN raw |->
        [ds |-> raw[i].ds, yhat |-> Clip(raw[i].yhat),
         yhat_lower |-> Clip(raw[i].yhat_lower),
         yhat_upper |-> Clip(raw[i].yhat_upper)]]

\* the integer nearest to num / den (den > 0, num >= 0), halves to the even one
RoundHalfEven(num, den) ==
    LET q == num \div den
        r == num % den
    IN  IF 2 * r < den THEN q
        ELSE IF 2 * r > den THEN q + 1
        ELSE IF q % 2 = 0 THEN q ELSE q + 1

\* np.round(x, 2)
Round2(v) == 10 * RoundHalfEven(v, 10)

\* np.round(value / count, 1)
RoundAverage(value, count) == 100 * RoundHalfEven(value, 100 * count)

\* a window test that counts the end hour in
RECURSIVE FirstPeriodInclusive(_, _)
FirstPeriodInclusive(hour, i) ==
    IF i > Len(REGULAR_PERIODS) THEN "None"
    ELSE LET name == REGULAR_PERIODS[i]
         IN  IF TIME_PERIODS[name][1] <= hour /\ hour <= TIME_PERIODS[name][2]
             THEN name
             ELSE FirstPeriodInclusive(hour, i + 1)

\* first regular period whose [start, end) holds the hour, or "None"
RECURSIVE FirstPeriod(_, _)
FirstPeriod(hour, i) ==
    IF i > Len(REGULAR_PERIODS) THEN "None"
    ELSE LET name == REGULAR_PERIODS[i]
         IN  IF TIME_PERIODS[name][1] <= hour /\ hour < TIME_PERIODS[name][2]
             THEN name
             ELSE FirstPeriod(hour, i + 1)

time_period(t) == FirstPeriod(Hour(t), 1)

\* the total of yhat over rows[1..i]
RECURSIVE SumYhat(_, _)
SumYhat(rows, i) ==
    IF i = 0 THEN 0 ELSE rows[i].yhat + SumYhat(rows, i - 1)

\* the total of the values as rounded for the detailed points
RECURSIVE SumRounded(_, _)
SumRounded(rows, i) ==
    IF i = 0 THEN 0 ELSE Round2(rows[i].yhat) + SumRounded(rows, i - 1)

\* an accumulator fed with the rounded values of the detailed points
PeriodAccumulatorRounded(rows) ==
    [name \in Rows(REGULAR_PERIODS) |->
        LET tagged(r) == time_period(r.ds) = name
            hits      == SelectSeq(rows, tagged)
        IN  [value |-> SumRounded(hits, Len(hits)), count |-> Len(hits)]]

\* forecasts_by_day[day]["periods"]: the accumulated value and count per period,
\* given the day's rows
PeriodAccumulator(rows) ==
    [name \in Rows(REGULAR_PERIODS) |->
        LET tagged(r) == time_period(r.ds) = name
            hits      == SelectSeq(rows, tagged)
        IN  [value |-> SumYhat(hits, Len(hits)), count |-> Len(hits)]]

\* every period reported, an empty one with the value 0
PeriodPredictionsAll(acc) ==
    [name \in DOMAIN acc |->
        [predicted_freespace_percentage |->
            IF acc[name].count > 0
            THEN RoundAverage(acc[name].value, acc[name].count)
            ELSE 0,
         period |-> name]]

\* the periods kept in the output: those whose count is positive
PeriodPredictions(acc) ==
    [name \in {n \in DOMAIN acc : acc[n].count > 0} |->
        [predicted_freespace_percentage |-> RoundAverage(acc[name].value, acc[name].count),
         period |-> name]]

\* forecasts_by_day[day]["predictions"], given the day's rows
DetailedPredictions(rows) ==
    [i \in DOMAIN rows |->
        [timestamp |-> rows[i].ds,
         predicted_freespace_percentage |-> Round2(rows[i].yhat),
         lower_bound |-> Round2(rows[i].yhat_lower),
         upper_bound |-> Round2(rows[i].yhat_upper),
         time_period |-> time_period(rows[i].ds)]]

\* the output mapping day -> DayPrediction, given the clipped forecast
FormatForecast(fc) ==
    [day \in {Date(fc[i].ds) : i \in DOMAIN fc} |->
        LET ofDay(r) == Date(r.ds) = day
            rows     == SelectSeq(fc, ofDay)
        IN  [predictions |-> DetailedPredictions(rows),
             periods |-> PeriodPredictions(PeriodAccumulator(rows))]]

----------------------------------------------------------------------------
(* make_predictions of the scheduled job (src/functions/main.py) *)

\* scheduled_run_predictions calls make_predictions(model, days=5)
ScheduledDays == 5

\* model.make_future_dataframe(periods, freq="30min", include_history=False):
\* the periods half hours that follow the last date of the training history
make_future_dataframe(last_date, periods) ==
    [k \in 1..periods |-> last_date + 30 * k]

OperatingHour(t) == Hour(t) >= 6 /\ Hour(t) < 22

\* the frame handed to predict: the slots of the operating hours
FutureOfSchedule(last_date, days) ==
    LET periods == days * 24 * 2
    IN  SelectSeq(make_future_dataframe(last_date, periods), OperatingHour)

\* the clipped forecast returned; an exception inside returns an empty frame
make_predictions(raw, raises) == IF raises THEN <<>> ELSE ClipForecast(raw)

----------------------------------------------------------------------------
(* store_predictions of the scheduled job (src/functions/main.py) *)

\* lines 316-328: the if / elif chain on the hour
StoredTimePeriod(hour) ==
    IF 6 <= hour /\ hour < 9 THEN "early_morning"
    ELSE IF 9 <= hour /\ hour < 11 THEN "late_morning"
    ELSE IF 11 <= hour /\ hour < 13 THEN "lunch"
    ELSE IF 13 <= hour /\ hour < 16 THEN "afternoon"
    ELSE IF 16 <= hour /\ hour < 19 THEN "after_work"
    ELSE IF 19 <= hour /\ hour < 22 THEN "evening"
    ELSE "None"

StoredPeriodNames ==
    {"early_morning", "late_morning", "lunch", "afternoon", "after_work", "evening"}

\* lines 344-352: the points of a day, values as they are in the forecast
StoredPredictions(rows) ==
    [i \in DOMAIN rows |->
        [timestamp |-> rows[i].ds,
         predicted_freespace_percentage |-> rows[i].yhat,
         lower_bound |-> rows[i].yhat_lower,
         upper_bound |-> rows[i].yhat_upper,
         time_period |-> StoredTimePeriod(Hour(rows[i].ds))]]

\* lines 333-340 and 355-359: value and count accumulated per period
StoredAccumulator(rows) ==
    [name \in StoredPeriodNames |->
        LET tagged(r) == StoredTimePeriod(Hour(r.ds)) = name
            hits      == SelectSeq(rows, tagged)
        IN  [value |-> SumYhat(hits, Len(hits)), count |-> Len(hits)]]

\* lines 374-387: every period is stored, one without points with the value 0
StoredPeriods(acc) ==
    [name \in DOMAIN acc |->
        [predicted_freespace_percentage |->
            IF acc[name].count > 0
            THEN RoundAverage(acc[name].value, acc[name].count)
            ELSE 0,
         period |-> name]]

\* sorted(predictions, key=lambda x: x["timestamp"]); equal keys keep their order
RECURSIVE sorted_by_timestamp(_)
sorted_by_timestamp(s) ==
    IF s = <<>> THEN <<>>
    ELSE LET rest == sorted_by_timestamp(SubSeq(s, 1, Len(s) - 1))
             r    == s[Len(s)]
             k    == Cardinality({i \in DOMAIN rest : rest[i].timestamp <= r.timestamp})
         IN  SubSeq(rest, 1, k) \o <<r>> \o SubSeq(rest, k + 1, Len(rest))

\* the documents set in the collection predictions, by day; none for an empty frame
store_predictions(fc) ==
    [day \in {Date(fc[i].ds) : i \in DOMAIN fc} |->
        LET ofDay(r) == Date(r.ds) = day
            rows     == SelectSeq(fc, ofDay)
        IN  [predictions |-> sorted_by_timestamp(StoredPredictions(rows)),
             periods |-> StoredPeriods(StoredAccumulator(rows))]]

----------------------------------------------------------------------------
(* The model argument and the collaborator's fit *)

NoModel == [kind |-> "None", history |-> <<>>]

\* an object that has no history attribute
NoHistoryModel == [kind |-> "no_history", history |-> <<>>]

FittedModel(frame) == [kind |-> "Prophet", history |-> frame]

\* what the in-place model.fit(updated_df) may do: succeed, or raise one of these
FitErrors == {"AssertionError", "ValueError", "Exception"}

\* except (AssertionError, HTTPException)
Caught(e) == e \in {"AssertionError", "HTTPException"}

\* DataFrame.drop_duplicates(): of rows equal in every column the first is kept
RECURSIVE drop_duplicates(_)
drop_duplicates(s) ==
    IF s = <<>> THEN <<>>
    ELSE LET front == SubSeq(s, 1, Len(s) - 1)
         IN  IF s[Len(s)] \in Rows(front)
             THEN drop_duplicates(front)
             ELSE Append(drop_duplicates(front), s[Len(s)])

\* pd.concat([history.filter(df.columns), df], ignore_index=True).drop_duplicates()
updated_df(history, frame) == drop_duplicates(history \o frame)

\* the exception raised before model.fit is reached in the try block, or "none"
UpdateGuard(m) ==
    IF m.kind = "None" THEN "AssertionError"
    ELSE IF m.kind = "no_history" THEN "HTTPException"
    ELSE "none"

\* a policy that forgets the is_full_history flag
AttemptsUpdateIgnoringFlag(d, m) == UpdateGuard(m) = "none"

\* whether process_and_predict reaches the in-place model.fit(updated_df)
AttemptsUpdate(d, m) == ~d.is_full_history /\ UpdateGuard(m) = "none"

FitCall(kind, frame, raised) == [kind |-> kind, frame |-> frame, raised |-> raised]

\* lines 220-236: the local model, the caller's object, the fit calls made and the
\* exception that escapes, given what the in-place fit on the caller's object m
\* does (outcome: "ok" or the exception it raises)
FitStep(d, m, frame, outcome) ==
    IF ~AttemptsUpdate(d, m)
    THEN [model |-> FittedModel(frame), supplied |-> m,
          calls |-> <<FitCall("fit_model", frame, "none")>>,
          error |-> "none"]
    ELSE LET merged == updated_df(m.history, frame)
         IN  IF outcome = "ok"
             THEN [model |-> FittedModel(merged), supplied |-> FittedModel(merged),
                   calls |-> <<FitCall("update", merged, "none")>>,
                   error |-> "none"]
             ELSE IF Caught(outcome)
             THEN [model |-> FittedModel(frame), supplied |-> m,
                   calls |-> <<FitCall("update", merged, outcome),
                              FitCall("fit_model", frame, "none")>>,
                   error |-> "none"]
             ELSE [model |-> m, supplied |-> m,
                   calls |-> <<FitCall("update", merged, outcome)>>,
                   error |-> outcome]

----------------------------------------------------------------------------
(* Inputs *)

ObsValues == {-5, 40, 42}

\* UTC, and Europe/Zurich in summer
Offsets == {0, 120}

\* the times of day of the observations tried
ObsTimes ==
    { At(0, 3, 10), At(0, 9, 0), At(0, 9, 30), At(0, 21, 29), At(0, 21, 30),
      At(0, 22, 0), At(0, 23, 40) }

ObsInstants == {At(d, 0, 0) + t : d \in {0, 1}, t \in ObsTimes}

\* the instants tried when the whole of process_and_predict runs (given in UTC)
CallInstants == {At(0, 9, 30), At(0, 22, 0), At(1, 3, 10)}

\* chronological observation lists of at most n (instant, value) pairs
RECURSIVE ObsLists(_, _)
ObsLists(instants, n) ==
    IF n = 0 THEN {<<>>}
    ELSE LET shorter == ObsLists(instants, n - 1)
         IN  shorter \cup
             { Append(s, <<t, v>>) :
                 s \in {x \in shorter : Len(x) = n - 1},
                 t \in instants, v \in ObsValues }

Chronological(s) == \A i \in 1..(Len(s) - 1) : s[i][1] <= s[i + 1][1]

\* a PredictionInput; short = TRUE leaves the last value out (lengths differ)
MakeData(obs, off, short, days, full) ==
    [timestamps |-> [i \in DOMAIN obs |-> [wall |-> obs[i][1], off |-> off]],
     values |-> IF short /\ obs # <<>>
                THEN [i \in 1..(Len(obs) - 1) |-> obs[i][2]]
                ELSE [i \in DOMAIN obs |-> obs[i][2]],
     days |-> days,
     is_full_history |-> full]

DataInputs(instants, offsets, daysSet, fullSet) ==
    { MakeData(obs, off, short, days, full) :
        obs \in {s \in ObsLists(instants, MaxObs) : Chronological(s)},
        off \in offsets, short \in BOOLEAN, days \in daysSet, full \in fullSet }

\* the history of a model fitted earlier: it disagrees with new data on 09:30
PriorHistory ==
    << [ds |-> At(0, 9, 0), y |-> 40], [ds |-> At(0, 9, 30), y |-> 42],
       [ds |-> At(0, 22, 0), y |-> 0] >>

ModelArguments == {NoModel, NoHistoryModel, FittedModel(PriorHistory)}

NoData == [timestamps |-> <<>>, values |-> <<>>, days |-> 1, is_full_history |-> FALSE]

----------------------------------------------------------------------------
(* process_and_predict, one action per function it calls *)

Idle ==
    /\ pc = "idle"
    /\ data = NoData
    /\ supplied_model = NoModel
    /\ model = NoModel
    /\ df = <<>>
    /\ closed_df = <<>>
    /\ latest_timestamp = NoTimestamp
    /\ future = <<>>
    /\ raw_forecast = <<>>
    /\ forecast = <<>>
    /\ formatted_predictions = <<>>
    /\ error = "none"
    /\ fit_log = <<>>
    /\ df_features = <<>>
    /\ future_features = <<>>
    /\ stored = <<>>
    /\ endpoint = "none"
    /\ model_store = <<>>

Init == Idle

\* process_and_predict(data, model) is entered
Call ==
    /\ pc = "idle"
    /\ \E d \in DataInputs(CallInstants, {0}, {1, 2}, BOOLEAN), m \in ModelArguments :
          /\ data' = d
          /\ supplied_model' = m
          /\ model' = m
    /\ pc' = "prepare_data"
    /\ UNCHANGED <<df, closed_df, latest_timestamp, future, raw_forecast, forecast,
                   formatted_predictions, error, fit_log>>
    /\ UNCHANGED <<df_features, future_features, stored, endpoint, model_store>>

\* line 218: df, latest_timestamp = prepare_data(data)
PrepareData ==
    /\ pc = "prepare_data"
    /\ LET r == prepare_data(data)
       IN  IF r.ok
           THEN /\ df' = r.df
                /\ df_features' = r.features
                /\ closed_df' = r.closed_df
                /\ latest_timestamp' = r.latest_timestamp
                /\ pc' = "fit"
                /\ error' = error
           ELSE /\ error' = r.error
                /\ pc' = "raised"
                /\ UNCHANGED <<df, df_features, closed_df, latest_timestamp>>
    /\ UNCHANGED <<data, supplied_model, model, future, raw_forecast, forecast,
                   formatted_predictions, fit_log>>
    /\ UNCHANGED <<future_features, stored, endpoint, model_store>>

\* lines 220-236: incremental update of the supplied model, or a fresh fit
Fit ==
    /\ pc = "fit"
    /\ \E outcome \in {"ok"} \cup FitErrors :
          LET r == FitStep(data, model, df, outcome)
          IN  /\ model' = r.model
              /\ supplied_model' = r.supplied
              /\ fit_log' = fit_log \o r.calls
              /\ error' = r.error
              /\ pc' = IF r.error = "none" THEN "prepare_future_dates" ELSE "raised"
    /\ UNCHANGED <<data, df, closed_df, latest_timestamp, future, raw_forecast,
                   forecast, formatted_predictions>>
    /\ UNCHANGED <<df_features, future_features, stored, endpoint, model_store>>

\* line 237: future = prepare_future_dates(latest_timestamp, data.days, TIME_PERIODS)
PrepareFutureDates ==
    /\ pc = "prepare_future_dates"
    /\ future' = prepare_future_dates(latest_timestamp, data.days)
    /\ future_features' = future_time_periods(future')
    /\ pc' = "format_predictions"
    /\ UNCHANGED <<data, supplied_model, model, df, closed_df, latest_timestamp,
                   raw_forecast, forecast, formatted_predictions, error, fit_log>>
    /\ UNCHANGED <<df_features, stored, endpoint, model_store>>

\* lines 239-242 and 245-317: predict, clip, group by day, average per period
FormatPredictions ==
    /\ pc = "format_predictions"
    /\ \E p \in Profiles :
          LET clipped == ClipForecast(Predict(future, p))
          IN  /\ raw_forecast' = Predict(future, p)
              /\ forecast' = clipped
              /\ formatted_predictions' = FormatForecast(clipped)
    /\ pc' = "returned"
    /\ UNCHANGED <<data, supplied_model, model, df, closed_df, latest_timestamp, future,
                   error, fit_log>>
    /\ UNCHANGED <<df_features, future_features, stored, endpoint, model_store>>

\* the call, the request or the scheduled run is over; the next one starts from
\* scratch, and only the table of stored models outlives it
Return ==
    /\ \/ pc \in {"raised", "scheduled_done", "responded"}
       \/ (pc = "returned" /\ endpoint # "fit_full_model")
    /\ pc' = "idle"
    /\ data' = NoData
    /\ supplied_model' = NoModel
    /\ model' = NoModel
    /\ df' = <<>>
    /\ closed_df' = <<>>
    /\ latest_timestamp' = NoTimestamp
    /\ future' = <<>>
    /\ raw_forecast' = <<>>
    /\ forecast' = <<>>
    /\ formatted_predictions' = <<>>
    /\ error' = "none"
    /\ fit_log' = <<>>
    /\ df_features' = <<>>
    /\ future_features' = <<>>
    /\ stored' = <<>>
    /\ endpoint' = "none"
    /\ UNCHANGED model_store

\* scheduled_run_predictions: forecast = make_predictions(model, days=5)
MakePredictions ==
    /\ pc = "idle"
    /\ \E last_date \in ObsInstants, p \in Profiles, raises \in BOOLEAN :
          LET fut == FutureOfSchedule(last_date, ScheduledDays)
              raw == IF raises THEN <<>> ELSE Predict(fut, p)
          IN  /\ future' = fut
              /\ raw_forecast' = raw
              /\ forecast' = make_predictions(raw, raises)
    /\ pc' = "store_predictions"
    /\ UNCHANGED <<data, supplied_model, model, df, closed_df, latest_timestamp,
                   formatted_predictions, error, fit_log>>
    /\ UNCHANGED <<df_features, future_features, stored, endpoint, model_store>>

\* scheduled_run_predictions: store_predictions(forecast)
StorePredictions ==
    /\ pc = "store_predictions"
    /\ stored' = store_predictions(forecast)
    /\ pc' = "scheduled_done"
    /\ UNCHANGED <<data, supplied_model, model, df, closed_df, latest_timestamp, future,
                   raw_forecast, forecast, formatted_predictions, error, fit_log>>
    /\ UNCHANGED <<df_features, future_features, endpoint, model_store>>

Next ==
    \/ Call
    \/ PrepareData
    \/ Fit
    \/ PrepareFutureDates
    \/ FormatPredictions
    \/ MakePredictions
    \/ StorePredictions
    \/ Return

Spec == Init /\ [][Next]_vars

----------------------------------------------------------------------------
(* prepare_data alone, over a wider set of inputs *)

InitData ==
    /\ pc = "prepare_data"
    /\ data \in DataInputs(ObsInstants, Offsets, {1}, {FALSE})
    /\ supplied_model = NoModel
    /\ model = NoModel
    /\ df = <<>>
    /\ closed_df = <<>>
    /\ latest_timestamp = NoTimestamp
    /\ future = <<>>
    /\ raw_forecast = <<>>
    /\ forecast = <<>>
    /\ formatted_predictions = <<>>
    /\ error = "none"
    /\ fit_log = <<>>
    /\ df_features = <<>>
    /\ future_features = <<>>
    /\ stored = <<>>
    /\ endpoint = "none"
    /\ model_store = <<>>

NextData == PrepareData

SpecData == InitData /\ [][NextData]_vars

----------------------------------------------------------------------------
(* prepare_future_dates alone, from every minute of day 0 *)

InitFuture ==
    /\ pc = "prepare_future_dates"
    /\ \E d \in 1..MaxDays : data = [NoData EXCEPT !.days = d]
    /\ \E w \in 0..(MinutesPerDay - 1), off \in Offsets :
          latest_timestamp = [wall |-> w, off |-> off]
    /\ supplied_model = NoModel
    /\ model = NoModel
    /\ df = <<>>
    /\ closed_df = <<>>
    /\ future = <<>>
    /\ raw_forecast = <<>>
    /\ forecast = <<>>
    /\ formatted_predictions = <<>>
    /\ error = "none"
    /\ fit_log = <<>>
    /\ df_features = <<>>
    /\ future_features = <<>>
    /\ stored = <<>>
    /\ endpoint = "none"
    /\ model_store = <<>>

NextFuture == PrepareFutureDates

SpecFuture == InitFuture /\ [][NextFuture]_vars

----------------------------------------------------------------------------
(* The two frames of one call: prepare_data, the fit, prepare_future_dates *)

\* Friday morning, Saturday before opening, Saturday late afternoon
FrameInstants == {At(0, 9, 30), At(1, 3, 10), At(1, 17, 0)}

InitFrames ==
    /\ pc = "prepare_data"
    /\ data \in DataInputs(FrameInstants, Offsets, {1, 2}, {TRUE})
    /\ supplied_model = NoModel
    /\ model = NoModel
    /\ df = <<>>
    /\ closed_df = <<>>
    /\ latest_timestamp = NoTimestamp
    /\ future = <<>>
    /\ raw_forecast = <<>>
    /\ forecast = <<>>
    /\ formatted_predictions = <<>>
    /\ error = "none"
    /\ fit_log = <<>>
    /\ df_features = <<>>
    /\ future_features = <<>>
    /\ stored = <<>>
    /\ endpoint = "none"
    /\ model_store = <<>>

NextFrames ==
    \/ PrepareData
    \/ Fit
    \/ PrepareFutureDates

SpecFrames == InitFrames /\ [][NextFrames]_vars

----------------------------------------------------------------------------
(* The endpoints /predict and /fit_full_model and the table prophet_models *)

\* the row inserted for a model: model_to_json keeps the model with its history
model_to_json(m) == [model_type |-> "badi_predictions", model_data |-> m]

model_from_json(row) == row.model_data

\* a save that overwrites what is stored
save_replacing(store, m) == <<model_to_json(m)>>

\* INSERT INTO prophet_models
save_prophet_model(store, m) == Append(store, model_to_json(m))

\* SELECT ... ORDER BY created_at DESC LIMIT 1 (only called on a table with rows)
load_latest_model(store) == model_from_json(store[Len(store)])

\* the requests tried: a valid one with the flag unset, a valid one with the flag
\* set, and one whose lists differ in length
EndpointInputs ==
    { MakeData(<< <<At(0, 9, 30), 40>> >>, 0, FALSE, 1, FALSE),
      MakeData(<< <<At(0, 9, 30), 42>> >>, 0, FALSE, 1, TRUE),
      MakeData(<< <<At(0, 9, 30), 40>> >>, 0, TRUE, 1, FALSE) }

\* POST /predict: the latest stored model is loaded, or the request fails with 404
ForecastProphet ==
    /\ pc = "idle"
    /\ endpoint' = "predict"
    /\ \E d \in EndpointInputs :
          IF model_store = <<>>
          THEN /\ error' = "HTTPException_404"
               /\ pc' = "raised"
               /\ UNCHANGED <<data, supplied_model, model>>
          ELSE /\ data' = d
               /\ supplied_model' = load_latest_model(model_store)
               /\ model' = load_latest_model(model_store)
               /\ pc' = "prepare_data"
               /\ error' = error
    /\ UNCHANGED <<df, closed_df, latest_timestamp, future, raw_forecast, forecast,
                   formatted_predictions, fit_log>>
    /\ UNCHANGED <<df_features, future_features, stored, model_store>>

\* POST /fit_full_model: data.is_full_history = True; process_and_predict(data)
FitFullModelEndpoint ==
    /\ pc = "idle"
    /\ Len(model_store) < MaxStored
    /\ endpoint' = "fit_full_model"
    /\ \E d \in EndpointInputs : data' = [d EXCEPT !.is_full_history = TRUE]
    /\ supplied_model' = NoModel
    /\ model' = NoModel
    /\ pc' = "prepare_data"
    /\ UNCHANGED <<df, closed_df, latest_timestamp, future, raw_forecast, forecast,
                   formatted_predictions, error, fit_log>>
    /\ UNCHANGED <<df_features, future_features, stored, model_store>>

\* line 504: save_prophet_model(model), once process_and_predict has returned
SaveProphetModel ==
    /\ pc = "returned"
    /\ endpoint = "fit_full_model"
    /\ model_store' = save_prophet_model(model_store, model)
    /\ pc' = "responded"
    /\ UNCHANGED <<data, supplied_model, model, df, closed_df, latest_timestamp, future,
                   raw_forecast, forecast, formatted_predictions, error, fit_log>>
    /\ UNCHANGED <<df_features, future_features, stored, endpoint>>

NextEndpoints ==
    \/ ForecastProphet
    \/ FitFullModelEndpoint
    \/ PrepareData
    \/ Fit
    \/ PrepareFutureDates
    \/ FormatPredictions
    \/ SaveProphetModel
    \/ Return

SpecEndpoints == Init /\ [][NextEndpoints]_vars

----------------------------------------------------------------------------
(* The two aggregators alone, on forecast frames whose rows come in any order *)

AggregateSlots == {At(0, 9, 30), At(0, 10, 0), At(0, 21, 30), At(1, 6, 0)}

\* sequences of at most n distinct slots, in every order
RECURSIVE Orders(_, _)
Orders(slots, n) ==
    IF n = 0 THEN {<<>>}
    ELSE LET shorter == Orders(slots, n - 1)
         IN  shorter \cup
             UNION { {Append(s, t) : t \in slots \ Rows(s)} :
                       s \in {x \in shorter : Len(x) = n - 1} }

\* the row the collaborator's predict gives for a slot
ForecastRow(t, p) ==
    LET v == p.base + p.step * Cardinality({u \in AggregateSlots : u < t})
    IN  [ds |-> t, yhat |-> v, yhat_lower |-> v - p.width, yhat_upper |-> v + p.width]

ForecastInputs ==
    { [i \in DOMAIN order |-> ForecastRow(order[i], p)] :
        order \in Orders(AggregateSlots, MaxPoints), p \in Profiles }

InitAggregate ==
    /\ pc = "aggregate"
    /\ raw_forecast \in ForecastInputs
    /\ data = NoData
    /\ supplied_model = NoModel
    /\ model = NoModel
    /\ df = <<>>
    /\ closed_df = <<>>
    /\ latest_timestamp = NoTimestamp
    /\ future = <<>>
    /\ forecast = <<>>
    /\ formatted_predictions = <<>>
    /\ error = "none"
    /\ fit_log = <<>>
    /\ df_features = <<>>
    /\ future_features = <<>>
    /\ stored = <<>>
    /\ endpoint = "none"
    /\ model_store = <<>>

\* format_predictions from line 251 on, given what predict returned
AggregateFormat ==
    /\ pc = "aggregate"
    /\ forecast' = ClipForecast(raw_forecast)
    /\ formatted_predictions' = FormatForecast(forecast')
    /\ pc' = "formatted"
    /\ UNCHANGED <<data, supplied_model, model, df, closed_df, latest_timestamp, future,
                   raw_forecast, error, fit_log>>
    /\ UNCHANGED <<df_features, future_features, stored, endpoint, model_store>>

\* make_predictions from line 275 on, then store_predictions
AggregateStore ==
    /\ pc = "aggregate"
    /\ forecast' = make_predictions(raw_forecast, FALSE)
    /\ stored' = store_predictions(forecast')
    /\ pc' = "stored"
    /\ UNCHANGED <<data, supplied_model, model, df, closed_df, latest_timestamp, future,
                   raw_forecast, formatted_predictions, error, fit_log>>
    /\ UNCHANGED <<df_features, future_features, endpoint, model_store>>

NextAggregate ==
    \/ AggregateFormat
    \/ AggregateStore

SpecAggregate == InitAggregate /\ [][NextAggregate]_vars

----------------------------------------------------------------------------
(* Properties *)

InRange(v) == 0 <= v /\ v <= 100000

\* C1: whatever the collaborator's predict returns, every yhat, yhat_lower and
\* yhat_upper of the clipped forecast (format_predictions and make_predictions)
\* and every predicted_freespace_percentage, lower_bound and upper_bound of the
\* formatted output lies in [0, 100].
C1_ClippedValuesInRange ==
    /\ \A i \in DOMAIN forecast :
          /\ InRange(forecast[i].yhat)
          /\ InRange(forecast[i].yhat_lower)
          /\ InRange(forecast[i].yhat_upper)
    /\ \A day \in DOMAIN formatted_predictions :
          /\ \A i \in DOMAIN formatted_predictions[day].predictions :
                LET pred == formatted_predictions[day].predictions[i]
                IN  /\ InRange(pred.predicted_freespace_percentage)
                    /\ InRange(pred.lower_bound)
                    /\ InRange(pred.upper_bound)
          /\ \A name \in DOMAIN formatted_predictions[day].periods :
                InRange(formatted_predictions[day].periods[name].predicted_freespace_percentage)

\* format_predictions has returned an output for a forecast in which predict gave
\* values below 0 and values above 100
C1_Witness ==
    /\ pc = "returned"
    /\ formatted_predictions # <<>>
    /\ \E i \in DOMAIN raw_forecast : raw_forecast[i].yhat_lower < 0
    /\ \E i \in DOMAIN raw_forecast : raw_forecast[i].yhat_upper > 100000
    /\ \E i \in DOMAIN raw_forecast : raw_forecast[i].yhat > 100000

TagsOfDay(day) ==
    { formatted_predictions[day].predictions[i].time_period :
        i \in DOMAIN formatted_predictions[day].predictions }

\* C2: in the output of format_predictions a regular window is among a day's
\* periods exactly when one of that day's points is tagged with it; a window
\* without points is left out (and so is never reported with the value 0).
C2_PeriodPresentIffTagged ==
    \A day \in DOMAIN formatted_predictions :
        \A name \in Rows(REGULAR_PERIODS) :
            name \in DOMAIN formatted_predictions[day].periods <=> name \in TagsOfDay(day)

\* an output in which a day has points in some window and none in another
C2_Witness ==
    /\ pc = "returned"
    /\ \E day \in DOMAIN formatted_predictions :
          /\ "evening" \in DOMAIN formatted_predictions[day].periods
          /\ "early_morning" \notin DOMAIN formatted_predictions[day].periods
          /\ "early_morning" \notin TagsOfDay(day)

HalfHourMarks(date) == {At(date, 0, 0) + 30 * k : k \in 0..47}

CurrentDaySlots == {future[i] : i \in {j \in DOMAIN future : Date(future[j]) = Date(latest_timestamp.wall)}}

\* C3: the current-day part of the frame built by prepare_future_dates is exactly
\* the half-hour slots after the latest observation that lie in [06:00, 22:00):
\* when the latest observation is before 06:00, no slot before 06:00 is kept.
C3_CurrentDayWithinOperatingHours ==
    pc = "format_predictions" =>
        CurrentDaySlots =
            { t \in HalfHourMarks(Date(latest_timestamp.wall)) :
                /\ t > latest_timestamp.wall
                /\ Hour(t) >= 6
                /\ Hour(t) < 22 }

ScenarioObs(date, off) ==
    MakeData(<< <<At(date, 9, 0), 40>>, <<At(date, 9, 30), 42>> >>, off, FALSE, 1, FALSE)

IsScenario(date, off) == data = ScenarioObs(date, off)

ScenarioRealRows(date, off) ==
    << [ds |-> At(date, 9, 0) - off, y |-> 40], [ds |-> At(date, 9, 30) - off, y |-> 42] >>

\* the zero rows of 00:00 .. 05:30 of a day
MorningClosedRows(date) == [k \in 1..12 |-> [ds |-> At(date, 0, 0) + 30 * (k - 1), y |-> 0]]

\* C4 as stated: for the observations [(09:00, 40), (09:30, 42)] of one day the
\* training frame holds exactly the two real rows and no synthetic row at all.
C4_Original ==
    \A date \in {0, 1}, off \in Offsets :
        (pc = "fit" /\ IsScenario(date, off)) =>
            (df = ScenarioRealRows(date, off) /\ closed_df = <<>>)

\* C4 as amended: for the observations [(09:00, 40), (09:30, 42)] of one day the
\* training frame holds the two real rows (at their UTC slots) and, besides them,
\* exactly the twelve synthetic zero rows of 00:00 .. 05:30 of that day; the
\* truncation removes only the synthetic rows later than 09:30 (22:00 .. 23:30).
C4_ScenarioFrame ==
    \A date \in {0, 1}, off \in Offsets :
        (pc = "fit" /\ IsScenario(date, off)) =>
            /\ closed_df = MorningClosedRows(date)
            /\ df = MorningClosedRows(date) \o ScenarioRealRows(date, off)

\* prepare_data has returned the frame of the scenario
C4_Witness ==
    /\ pc = "fit"
    /\ IsScenario(0, 0)
    /\ Len(df) = 14
    /\ df[14] = [ds |-> At(0, 9, 30), y |-> 42]

TimeOfDay(t) == t % MinutesPerDay

\* C5: when the latest observation is earlier than 21:30 on its own day, no
\* synthetic closed-hour row of the training frame has a slot later than the
\* latest observation (its wall-clock reading); when it is at 21:30 or later, the
\* synthetic rows of that day extend through 23:30.
C5_TruncationAtHalfPastNine ==
    pc = "fit" =>
        LET w == latest_timestamp.wall
        IN  /\ Rows(closed_df) \subseteq Rows(df)
            /\ TimeOfDay(w) < At(0, 21, 30) =>
                  /\ \A i \in DOMAIN closed_df : closed_df[i].ds <= w
                  /\ \A i \in DOMAIN df : df[i].y = 0 => df[i].ds <= w
            /\ TimeOfDay(w) >= At(0, 21, 30) =>
                  \A k \in 0..3 :
                      [ds |-> At(Date(w), 22, 0) + 30 * k, y |-> 0] \in Rows(df)

\* the latest observation is at 21:29 and the frame holds synthetic rows, none of
\* them from 22:00 on
C5_Witness ==
    /\ pc = "fit"
    /\ TimeOfDay(latest_timestamp.wall) = At(0, 21, 29)
    /\ closed_df # <<>>
    /\ \A i \in DOMAIN df : df[i].ds < At(Date(latest_timestamp.wall), 22, 0)

NoDuplicateSlots(frame) ==
    \A i, j \in DOMAIN frame : i # j => frame[i].ds # frame[j].ds

\* C6: every frame handed to the collaborator's fit (the frame of prepare_data, and
\* on an incremental update the history merged with it) holds at most one row per
\* slot.
C6_NoDuplicateSlotInFit ==
    \A i \in DOMAIN fit_log : NoDuplicateSlots(fit_log[i].frame)

\* C7: when the in-place fit of the incremental update raises, whatever the error,
\* it does not leave process_and_predict: a fresh fit on the new frame follows and
\* the call goes on to the forecast.
C7_UpdateFailureRecovered ==
    \A i \in DOMAIN fit_log :
        (fit_log[i].kind = "update" /\ fit_log[i].raised # "none") =>
            /\ pc # "raised"
            /\ error = "none"
            /\ i < Len(fit_log)
            /\ fit_log[i + 1] = FitCall("fit_model", df, "none")

FullRefit(calls, frame) ==
    /\ calls # <<>>
    /\ calls[Len(calls)] = FitCall("fit_model", frame, "none")
    /\ \A i \in DOMAIN calls : calls[i].kind = "update" => FALSE

\* C8: the fit decision of process_and_predict.  With is_full_history set: a fresh
\* fit, whatever the model argument; otherwise with no model: a fresh fit;
\* otherwise with a model without history: a fresh fit; and only a model with
\* history and is_full_history unset is fitted in place, on its history merged
\* with the new frame.
C8_FitPolicy ==
    [][ (pc = "fit" /\ pc' # "fit") =>
            /\ (data.is_full_history => FullRefit(fit_log', df))
            /\ (~data.is_full_history /\ model.kind = "None" => FullRefit(fit_log', df))
            /\ (~data.is_full_history /\ model.kind = "no_history" => FullRefit(fit_log', df))
            /\ (~data.is_full_history /\ model.kind = "Prophet" =>
                   /\ fit_log'[1].kind = "update"
                   /\ Rows(fit_log'[1].frame) = Rows(model.history) \cup Rows(df)
                   /\ fit_log'[1].raised = "none" =>
                         /\ supplied_model' = FittedModel(fit_log'[1].frame)
                         /\ model' = supplied_model')
            /\ (fit_log'[1].kind = "update" =>
                   (~data.is_full_history /\ model.kind = "Prophet"))
      ]_vars

\* a model with history was updated in place while, for other calls, the flag or
\* the missing history led to a fresh fit
C8_Witness ==
    /\ pc = "prepare_future_dates"
    /\ ~data.is_full_history
    /\ fit_log # <<>>
    /\ fit_log[1].kind = "update"
    /\ fit_log[1].raised = "none"
    /\ supplied_model = model
    /\ Len(model.history) > Len(df)

\* the positions of a running call of process_and_predict
CallPositions ==
    {"prepare_data", "fit", "prepare_future_dates", "format_predictions",
     "returned", "raised"}

InvalidInput(d) ==
    \/ Len(d.timestamps) # Len(d.values)
    \/ \A i \in DOMAIN d.values : d.values[i] < 0

\* C9: when timestamps and values differ in length, or no value is non-negative,
\* process_and_predict fails with an error at once: no training frame exists, no
\* fit and no predict was called, and the supplied model is as it was.
C9_InvalidInputFailsFirst ==
    [][ (InvalidInput(data) /\ pc \in CallPositions) =>
            /\ pc = "prepare_data" =>
                  /\ pc' = "raised"
                  /\ error' = "ValueError"
                  /\ df' = <<>> /\ closed_df' = <<>>
                  /\ fit_log' = <<>>
                  /\ future' = <<>> /\ raw_forecast' = <<>> /\ forecast' = <<>>
                  /\ supplied_model' = supplied_model
            /\ pc # "prepare_data" => (pc = "raised" /\ pc' = "idle")
      ]_vars

\* a call with lists of different lengths and a fitted model has failed
C9_Witness ==
    /\ pc = "raised"
    /\ error = "ValueError"
    /\ Len(data.timestamps) # Len(data.values)
    /\ supplied_model = FittedModel(PriorHistory)
    /\ fit_log = <<>>
    /\ df = <<>>

\* C10 as stated: prepare_future_dates fails with an empty-horizon error when the
\* filtered grid is empty, as for a latest observation after 22:00, and so hands
\* no empty frame to predict.
C10_Original ==
    /\ (pc = "format_predictions" /\ Hour(latest_timestamp.wall) >= 22) => FALSE
    /\ (pc = "format_predictions" /\ future = <<>>) => FALSE

\* C10 as amended: prepare_future_dates has no empty-horizon failure; for every
\* latest observation and every horizon of at least one day the frame it returns
\* is not empty (for a latest observation after 22:00 it holds no slot of the
\* current day, only operating-hour slots of the following days), so predict is
\* never handed an empty frame.
C10_FutureNeverEmpty ==
    pc = "format_predictions" =>
        /\ error = "none"
        /\ future # <<>>
        /\ Hour(latest_timestamp.wall) >= 22 =>
              \A i \in DOMAIN future :
                  /\ Date(future[i]) > Date(latest_timestamp.wall)
                  /\ Hour(future[i]) >= 6 /\ Hour(future[i]) < 22

\* the latest observation is after 22:00 and a frame was returned
C10_Witness ==
    /\ pc = "format_predictions"
    /\ latest_timestamp.wall = At(0, 22, 10)
    /\ future # <<>>
    /\ future[1] = At(1, 6, 0)

\* the regular windows whose [start, end) holds the hour
WindowsOfHour(h) ==
    {name \in Rows(REGULAR_PERIODS) : TIME_PERIODS[name][1] <= h /\ h < TIME_PERIODS[name][2]}

\* C11: the six regular windows, taken in ascending order of their start hour,
\* cover each hour of 6..21 exactly once and no other hour; in the output of
\* format_predictions a point whose hour is in [6, 22) carries the one window that
\* holds its hour, and a point outside [6, 22) carries no tag.
C11_RegularWindowsPartition ==
    /\ Rows(REGULAR_PERIODS) =
          {"early_morning", "late_morning", "lunch", "afternoon", "after_work", "evening"}
    /\ \A i, j \in DOMAIN REGULAR_PERIODS :
          i < j => TIME_PERIODS[REGULAR_PERIODS[i]][1] < TIME_PERIODS[REGULAR_PERIODS[j]][1]
    /\ \A h \in 0..23 :
          Cardinality(WindowsOfHour(h)) = IF 6 <= h /\ h < 22 THEN 1 ELSE 0
    /\ \A day \in DOMAIN formatted_predictions :
          \A i \in DOMAIN formatted_predictions[day].predictions :
              LET pred == formatted_predictions[day].predictions[i]
                  h    == Hour(pred.timestamp)
              IN  IF 6 <= h /\ h < 22
                  THEN WindowsOfHour(h) = {pred.time_period}
                  ELSE pred.time_period = "None"

\* an output with a point before 06:00 without tag, and tagged points at the
\* first hour of one window and the last hour of another
C11_Witness ==
    /\ pc = "returned"
    /\ \E day \in DOMAIN formatted_predictions :
          LET preds == formatted_predictions[day].predictions
          IN  /\ \E i \in DOMAIN preds :
                    Hour(preds[i].timestamp) = 5 /\ preds[i].time_period = "None"
              /\ \E i \in DOMAIN preds :
                    Hour(preds[i].timestamp) = 9 /\ preds[i].time_period = "late_morning"
              /\ \E i \in DOMAIN preds :
                    Hour(preds[i].timestamp) = 21 /\ preds[i].time_period = "evening"

\* the indicator of a window for a slot, as the windows are specified
WindowIndicator(name, t) ==
    LET h == Hour(t)
    IN  IF name = "weekend_day"
        THEN (IF Weekday(t) \in {5, 6} /\ 10 <= h /\ h < 18 THEN 1 ELSE 0)
        ELSE IF name = "closed"
        THEN (IF h >= 22 \/ h < 6 THEN 1 ELSE 0)
        ELSE (IF TIME_PERIODS[name][1] <= h /\ h < TIME_PERIODS[name][2] THEN 1 ELSE 0)

\* C12: every row of the training frame and every row of the future frame has,
\* for each window, the indicator 1 exactly when its slot is in the window
\* (weekend_day: Saturday or Sunday and 10 <= hour < 18; closed: hour >= 22 or
\* hour < 6; any other: start <= hour < end), and each frame gives a slot the
\* indicators the other frame's rule gives it.
C12_WindowIndicators ==
    /\ Len(df_features) = Len(df)
    /\ Len(future_features) = Len(future)
    /\ \A i \in DOMAIN df_features :
          /\ df_features[i].ds = df[i].ds
          /\ \A name \in Rows(PeriodNames) :
                /\ df_features[i].periods[name] = WindowIndicator(name, df[i].ds)
                /\ df_features[i].periods[name] = future_period_indicator(name, df[i].ds)
    /\ \A i \in DOMAIN future_features :
          /\ future_features[i].ds = future[i]
          /\ \A name \in Rows(PeriodNames) :
                /\ future_features[i].periods[name] = WindowIndicator(name, future[i])
                /\ future_features[i].periods[name] = df_period_indicator(name, future[i])

\* both frames hold a Saturday slot of hour 17 with after_work, peak_hours and
\* weekend_day all 1, and both hold a slot of the closed window
C12_Witness ==
    /\ pc = "format_predictions"
    /\ \E i \in DOMAIN df_features :
          /\ df_features[i].ds = At(1, 17, 0)
          /\ df_features[i].periods["after_work"] = 1
          /\ df_features[i].periods["peak_hours"] = 1
          /\ df_features[i].periods["weekend_day"] = 1
          /\ df_features[i].periods["closed"] = 0
    /\ \E i \in DOMAIN future_features :
          /\ future_features[i].ds = At(1, 17, 30)
          /\ future_features[i].periods["after_work"] = 1
          /\ future_features[i].periods["peak_hours"] = 1
          /\ future_features[i].periods["weekend_day"] = 1
    /\ \E i \in DOMAIN df_features : df_features[i].periods["closed"] = 1
    /\ \E i \in DOMAIN future_features : future_features[i].periods["weekend_day"] = 0

Ascending(preds) ==
    \A i, j \in DOMAIN preds : i < j => preds[i].timestamp <= preds[j].timestamp

\* C14: whatever the order of the forecast rows, the detailed predictions of each
\* day are in ascending order of their slot, in the output of format_predictions
\* and in the documents of store_predictions.
C14_DetailedPredictionsSorted ==
    /\ \A day \in DOMAIN formatted_predictions :
          Ascending(formatted_predictions[day].predictions)
    /\ \A day \in DOMAIN stored : Ascending(stored[day].predictions)

\* the clipped forecast rows of a day whose hour lies in a window
RowsOfWindow(day, name) ==
    LET inWindow(r) == Date(r.ds) = day /\ name \in WindowsOfHour(Hour(r.ds))
    IN  SelectSeq(forecast, inWindow)

RECURSIVE TotalMean(_)
TotalMean(rows) ==
    IF rows = <<>> THEN 0 ELSE rows[1].yhat + TotalMean(Tail(rows))

RECURSIVE TotalRoundedMean(_)
TotalRoundedMean(rows) ==
    IF rows = <<>> THEN 0 ELSE Round2(rows[1].yhat) + TotalRoundedMean(Tail(rows))

PointsTagged(day, name) ==
    {i \in DOMAIN formatted_predictions[day].predictions :
        formatted_predictions[day].predictions[i].time_period = name}

\* C15: in the output of format_predictions the average of a window of a day is
\* round(sum / count, 1), where count is the number of the day's detailed points
\* tagged with the window and sum is the total of the clipped, unrounded means of
\* these points.
C15_AverageFromSumAndCount ==
    \A day \in DOMAIN formatted_predictions :
        \A name \in DOMAIN formatted_predictions[day].periods :
            LET rows == RowsOfWindow(day, name)
            IN  /\ Len(rows) = Cardinality(PointsTagged(day, name))
                /\ Len(rows) > 0
                /\ formatted_predictions[day].periods[name].predicted_freespace_percentage
                      = RoundAverage(TotalMean(rows), Len(rows))

\* an output with a window whose average differs from the one the rounded values
\* of its points would give
C15_Witness ==
    /\ pc = "returned"
    /\ \E day \in DOMAIN formatted_predictions :
          \E name \in DOMAIN formatted_predictions[day].periods :
              LET rows == RowsOfWindow(day, name)
              IN  /\ Len(rows) > 1
                  /\ formatted_predictions[day].periods[name].predicted_freespace_percentage
                        # RoundAverage(TotalRoundedMean(rows), Len(rows))

\* C16: every window among the periods of a document stored by store_predictions
\* has at least one of the day's points tagged with it; a window without points
\* is not stored (in particular not with the value 0).
C16_StoredOmitsEmptyWindows ==
    \A day \in DOMAIN stored :
        \A name \in DOMAIN stored[day].periods :
            \E i \in DOMAIN stored[day].predictions :
                stored[day].predictions[i].time_period = name

\* the input with one more observation, of negative value, put at its place in
\* the chronological order
WithNegative(d, t) ==
    LET k   == Cardinality({i \in DOMAIN d.timestamps : d.timestamps[i].wall <= t})
        off == d.timestamps[1].off
    IN  [d EXCEPT
           !.timestamps = SubSeq(d.timestamps, 1, k) \o <<[wall |-> t, off |-> off]>>
                            \o SubSeq(d.timestamps, k + 1, Len(d.timestamps)),
           !.values = SubSeq(d.values, 1, k) \o <<-5>>
                        \o SubSeq(d.values, k + 1, Len(d.values))]

\* C17: adding an observation of negative value, at any time, to an input accepted
\* by prepare_data changes neither the training frame nor the latest instant, and
\* so not the future frame either.
C17_NegativeObservationsIgnored ==
    pc = "fit" =>
        \A t \in ObsInstants :
            LET r == prepare_data(WithNegative(data, t))
            IN  /\ r.ok
                /\ r.df = df
                /\ r.latest_timestamp = latest_timestamp
                /\ prepare_future_dates(r.latest_timestamp, data.days)
                      = prepare_future_dates(latest_timestamp, data.days)

\* the same instants, given with another UTC offset
Rezone(d, off) ==
    [d EXCEPT !.timestamps =
        [i \in DOMAIN d.timestamps |->
            [wall |-> d.timestamps[i].wall - d.timestamps[i].off + off, off |-> off]]]

\* the slot of the latest real observation in the training frame
LatestRealSlot ==
    LET slots == BaseDs(data)
    IN  CHOOSE t \in Rows(slots) : \A u \in Rows(slots) : u <= t

\* C18: the training frame does not depend on the UTC offset in which the instants
\* are given, and when the latest real observation is before 21:30 no synthetic
\* row of the frame lies after its slot.
C18_ZoneConsistentFrame ==
    pc = "fit" =>
        /\ \A off \in Offsets :
              LET r == prepare_data(Rezone(data, off))
              IN  r.ok /\ r.df = df
        /\ TimeOfDay(LatestRealSlot) < At(0, 21, 30) =>
              \A i \in DOMAIN closed_df : closed_df[i].ds <= LatestRealSlot

\* the 32 half-hour slots 06:00 .. 21:30 of a day
OperatingSlots(date) == {At(date, 6, 0) + 30 * k : k \in 0..31}

\* C19: the slots of the future frame that lie after the current day are exactly
\* the 32 slots 06:00 .. 21:30 of each of the days current_date + 1 ..
\* current_date + days, each once and in ascending order; no slot is later than
\* 23:59 of current_date + days, and the frame is not empty.
C19_FollowingDaysComplete ==
    pc = "format_predictions" =>
        LET cur   == Date(latest_timestamp.wall)
            later == {i \in DOMAIN future : Date(future[i]) > cur}
        IN  /\ {future[i] : i \in later}
                  = UNION {OperatingSlots(d) : d \in (cur + 1)..(cur + data.days)}
            /\ Cardinality(later) = 32 * data.days
            /\ \A i, j \in DOMAIN future : i < j => future[i] < future[j]
            /\ \A i \in DOMAIN future : future[i] <= At(cur + data.days, 23, 59)
            /\ future # <<>>

\* a horizon of two days asked for at 23:40: the frame is the 64 slots of the two
\* following days
C19_Witness ==
    /\ pc = "format_predictions"
    /\ data.days = 2
    /\ latest_timestamp.wall = At(0, 23, 40)
    /\ Len(future) = 64
    /\ future[1] = At(1, 6, 0)
    /\ future[64] = At(2, 21, 30)

\* C20: over any sequence of /predict and /fit_full_model requests the table of
\* stored models changes only in the step that ends a successful /fit_full_model:
\* that step appends exactly one row, holding the model of a single fresh fit on
\* the request's frame, after the forecast was produced, whatever the request's
\* is_full_history flag was; a failed /fit_full_model and every /predict leave the
\* table as it is, and a /predict on an empty table fails with 404 before any fit.
C20_StoreChangedOnlyByFullFit ==
    [][ /\ model_store' # model_store =>
              /\ endpoint = "fit_full_model"
              /\ pc = "returned" /\ pc' = "responded"
              /\ error = "none"
              /\ formatted_predictions # <<>>
              /\ fit_log = <<FitCall("fit_model", df, "none")>>
              /\ model = FittedModel(df)
              /\ model_store' = Append(model_store, model_to_json(model))
        /\ (endpoint = "fit_full_model" /\ pc = "returned") => model_store' # model_store
        /\ (endpoint = "fit_full_model" /\ pc = "fit") =>
              (data.is_full_history /\ fit_log' = <<FitCall("fit_model", df, "none")>>)
        /\ endpoint = "predict" => model_store' = model_store
        /\ (pc = "idle" /\ endpoint' = "predict" /\ model_store = <<>>) =>
              (pc' = "raised" /\ error' = "HTTPException_404" /\ fit_log' = <<>>)
      ]_vars

\* a second model was appended by a /fit_full_model request that came with the
\* flag unset
C20_Witness ==
    /\ pc = "responded"
    /\ endpoint = "fit_full_model"
    /\ data.values = <<40>>
    /\ Len(model_store) = 2
    /\ model_store[2].model_data = model
    /\ formatted_predictions # <<>>

====
